---- MODULE Spec2Model ----
(***************************************************************************)
(* The Projects Dashboard: the client-side derivation pipeline (filter,    *)
(* sort, aggregate, paginate) of the two DashboardPage components of the   *)
(* repository, on top of the record store they fetch from.                  *)
(*                                                                         *)
(*   component = "api"   the DashboardPage of src/src/api/kpis.ts          *)
(*                       (with calculateKPIs and ChartsPanel)              *)
(*   component = "pages" the DashboardPage of src/src/pages/DashboardPage  *)
(*                                                                         *)
(* Text is a sequence of one-character strings, so that toLowerCase, trim,  *)
(* includes, join, String(n), localeCompare and Date parsing are computed   *)
(* as the code computes them.  An optional number (a JSON field that may be *)
(* missing) is <<>> when null/undefined and <<n>> when present.             *)
(***************************************************************************)
EXTENDS Integers, Sequences, FiniteSets, TLC

\* ------------------------------------------------------------------ bounds

\* a create is answered with a failure once the store holds MaxStore records
MaxStore == 7

\* create and delete requests issued in one behaviour
MaxMutations == 1

\* ------------------------------------------------------------- characters

null == <<>>

Some(n) == <<n>>

Digits == <<"0", "1", "2", "3", "4", "5", "6", "7", "8", "9">>

LowerLetters ==
  <<"a", "b", "c", "d", "e", "f", "g", "h", "i", "j", "k", "l", "m",
    "n", "o", "p", "q", "r", "s", "t", "u", "v", "w", "x", "y", "z">>

UpperLetters ==
  <<"A", "B", "C", "D", "E", "F", "G", "H", "I", "J", "K", "L", "M",
    "N", "O", "P", "Q", "R", "S", "T", "U", "V", "W", "X", "Y", "Z">>

IndexIn(c, s) == CHOOSE i \in 1..Len(s) : s[i] = c

IsIn(c, s) == \E i \in 1..Len(s) : s[i] = c

Range(s) == {s[i] : i \in 1..Len(s)}

\* the characters a text is made of
Chars == {" ", "-"} \cup Range(Digits) \cup Range(LowerLetters) \cup Range(UpperLetters)

\* the element of a one-element set: Only({F(x) : x \in {e}}) is F(e), with
\* e computed once however often F uses it
Only(S) == CHOOSE x \in S : TRUE

Max(a, b) == IF a >= b THEN a ELSE b

Min(a, b) == IF a <= b THEN a ELSE b

\* String.prototype.toLowerCase, one character
LowerChar(c) == IF IsIn(c, UpperLetters) THEN LowerLetters[IndexIn(c, UpperLetters)] ELSE c

LowerOf == [c \in Chars |-> LowerChar(c)]

toLowerCase(s) == Only({[i \in 1..Len(t) |-> LowerOf[t[i]]] : t \in {s}})

IsSpace(c) == c = " "

\* String.prototype.trim: the text from its first to its last character
\* that is not white space
trim(s) ==
  Only({IF \A i \in 1..Len(t) : IsSpace(t[i]) THEN <<>>
        ELSE SubSeq(t, CHOOSE i \in 1..Len(t) : ~IsSpace(t[i]) /\ \A j \in 1..(i - 1) : IsSpace(t[j]),
                       CHOOSE i \in 1..Len(t) : ~IsSpace(t[i]) /\ \A j \in (i + 1)..Len(t) : IsSpace(t[j])) :
        t \in {s}})

\* String.prototype.includes
includes(hay, q) ==
  \E text \in {hay}, part \in {q} :
    \E i \in 0..(Len(text) - Len(part)) : \A k \in 1..Len(part) : text[i + k] = part[k]

\* String(n) of a non-negative integer
RECURSIVE NumberToString(_)
NumberToString(n) ==
  IF n < 10 THEN <<Digits[n + 1]>>
  ELSE NumberToString(n \div 10) \o <<Digits[(n % 10) + 1]>>

\* Array.prototype.join(" ")
JoinArray(array) ==
  LET joined[n \in 0..Len(array)] ==
        IF n = 0 THEN <<>>
        ELSE IF n = 1 THEN array[1]
        ELSE joined[n - 1] \o <<" ">> \o array[n]
  IN joined[Len(array)]

join(parts) == Only({JoinArray(array) : array \in {parts}})

\* the characters of a ProjectStatus
StatusText(st) ==
  CASE st = "ACTIVE" -> <<"A", "C", "T", "I", "V", "E">>
    [] st = "PAUSED" -> <<"P", "A", "U", "S", "E", "D">>
    [] st = "DONE" -> <<"D", "O", "N", "E">>

\* -------------------------------------------------------------- comparison

\* the primary collation weight of a character in the host's default
\* (root) collation: white space < punctuation < digits < letters, letters
\* irrespective of case
PrimaryWeight(c) ==
  IF c = " " THEN 0
  ELSE IF c = "-" THEN 1
  ELSE IF IsIn(c, Digits) THEN 1 + IndexIn(c, Digits)
  ELSE IF IsIn(c, LowerLetters) THEN 11 + IndexIn(c, LowerLetters)
  ELSE 11 + IndexIn(c, UpperLetters)

\* the tertiary (case) weight: lower case before upper case
TertiaryWeight(c) == IF IsIn(c, UpperLetters) THEN 1 ELSE 0

\* lexicographic comparison of two texts under a weight of the characters,
\* from index i on: -1, 0 or 1
RECURSIVE LexCompare(_, _, _, _)
LexCompare(a, b, w, i) ==
  IF i > Len(a) /\ i > Len(b) THEN 0
  ELSE IF i > Len(a) THEN -1
  ELSE IF i > Len(b) THEN 1
  ELSE IF w[a[i]] < w[b[i]] THEN -1
  ELSE IF w[a[i]] > w[b[i]] THEN 1
  ELSE LexCompare(a, b, w, i + 1)

\* String.prototype.localeCompare with the default collation: the primary
\* weights decide, the case of the letters breaks a primary tie
PrimaryOf == [c \in Chars |-> PrimaryWeight(c)]

TertiaryOf == [c \in Chars |-> TertiaryWeight(c)]

localeCompare(a, b) ==
  LET primary == LexCompare(a, b, PrimaryOf, 1)
  IN IF primary # 0 THEN primary ELSE LexCompare(a, b, TertiaryOf, 1)

\* ------------------------------------------------------------------- dates

DigitValue(c) == IndexIn(c, Digits) - 1

DigitValueOf == [c \in Range(Digits) |-> DigitValue(c)]

\* the number written by a text of digits
RECURSIVE ParseDigits(_)
ParseDigits(s) ==
  IF s = <<>> THEN 0
  ELSE 10 * ParseDigits(SubSeq(s, 1, Len(s) - 1)) + DigitValueOf[s[Len(s)]]

IsLeapYear(y) == (y % 4 = 0 /\ y % 100 # 0) \/ y % 400 = 0

\* days from 1970-01-01 to the first day of year y
DayFromYear(y) ==
  365 * (y - 1970) + ((y - 1969) \div 4) - ((y - 1901) \div 100) + ((y - 1601) \div 400)

\* days from the first day of the year to the first day of month m (1..12)
DayInYearOfMonth(y, m) ==
  <<0, 31, 59, 90, 120, 151, 181, 212, 243, 273, 304, 334>>[m]
    + (IF m > 2 /\ IsLeapYear(y) THEN 1 ELSE 0)

\* new Date("YYYY-MM-DD").getTime(), in days (the value in milliseconds is
\* 86400000 times this: a date-only text is parsed as midnight UTC).  The
\* parser of V8 takes a month 01..12 and a day 01..31 and lets a day past
\* the end of the month run over into the next month (02-30 is 03-02).
getTime(createdAt) ==
  DayFromYear(ParseDigits(SubSeq(createdAt, 1, 4)))
    + DayInYearOfMonth(ParseDigits(SubSeq(createdAt, 1, 4)), ParseDigits(SubSeq(createdAt, 6, 7)))
    + ParseDigits(SubSeq(createdAt, 9, 10)) - 1

\* ----------------------------------------------------------- array helpers

\* Array.prototype.slice(start, end): negative indices count from the end,
\* both are clamped to the array
SliceIndex(i, len) == IF i < 0 THEN Max(len + i, 0) ELSE Min(i, len)

slice(list, start, end) ==
  SubSeq(list, SliceIndex(start, Len(list)) + 1, SliceIndex(end, Len(list)))

\* Array.prototype.sort(comparator): a stable sort, by insertion.  The
\* comparator is given as the table of its results, comparator[i, j] for the
\* elements at the indices i and j of the array.  Each index in turn is put
\* behind the indices of the sorted prefix whose elements do not compare
\* greater than its element.
InsertSorted(sorted, x, comparator) ==
  LET pos == Cardinality({j \in 1..Len(sorted) : comparator[sorted[j], x] <= 0})
  IN SubSeq(sorted, 1, pos) \o <<x>> \o SubSeq(sorted, pos + 1, Len(sorted))

\* the indices of the array in sorted order
SortArray(array, comparator) ==
  LET sorted[n \in 0..Len(array)] ==
        IF n = 0 THEN <<>>
        ELSE Only({InsertSorted(prefix, n, comparator) : prefix \in {sorted[n - 1]}})
  IN sorted[Len(array)]

SortedBy(array, order) == [k \in 1..Len(array) |-> array[order[k]]]

sort(list, comparator) ==
  Only({Only({SortedBy(array, order) : order \in {SortArray(array, comparator)}}) :
        array \in {list}})

Reverse(list) == [i \in 1..Len(list) |-> list[Len(list) + 1 - i]]

\* Array.prototype.reduce((s, p) => s + f(p), 0)
reduceSum(list, key) ==
  LET s[n \in 0..Len(list)] ==
        IF n = 0 THEN 0
        ELSE s[n - 1] + (IF list[n][key] = null THEN 0 ELSE list[n][key][1])
  IN s[Len(list)]

\* Numbers are IEEE 754 doubles. The amounts and their sums are integers a
\* double holds exactly; a quotient and its product with 100 are not. A
\* positive double is written 0.m1 m2 ... m53 (binary, m1 = 1) times
\* 2^exponent, zero has no mantissa.
MantissaBits == 53

Zero == [mantissa |-> <<>>, exponent |-> 0]

\* one more at the last place of a run of bits that holds a 0
Increment(bits) ==
  LET last == CHOOSE i \in 1..Len(bits) :
                bits[i] = 0 /\ \A j \in (i + 1)..Len(bits) : bits[j] = 1
  IN [i \in 1..Len(bits) |-> IF i < last THEN bits[i] ELSE IF i = last THEN 1 ELSE 0]

\* the mantissa kept of a run of more than 53 bits, one added at its last
\* place when up says so
Rounded(kept, exponent, up) ==
  IF ~up THEN [mantissa |-> kept, exponent |-> exponent]
  ELSE IF \A i \in 1..MantissaBits : kept[i] = 1
    THEN [mantissa |-> [i \in 1..MantissaBits |-> IF i = 1 THEN 1 ELSE 0],
          exponent |-> exponent + 1]
  ELSE [mantissa |-> Increment(kept), exponent |-> exponent]

\* round to nearest, ties to even: the double nearest to 0.bits times
\* 2^exponent; bits starts with 1 and holds more than 53 places, sticky says
\* that the exact value has places beyond them that are not 0
RoundToDouble(bits, exponent, sticky) ==
  Only({Rounded(kept, exponent,
                /\ bits[MantissaBits + 1] = 1
                /\ \/ sticky
                   \/ \E i \in (MantissaBits + 2)..Len(bits) : bits[i] = 1
                   \/ kept[MantissaBits] = 1) :
        kept \in {SubSeq(bits, 1, MantissaBits)}})

\* the long division of n by d takes sixteen places at a time: Anchor(n, d, j)
\* is the remainder after 16 * j places, Remainder(n, d, i) the one after i
\* places (n < d < 2^15, so that no product leaves the integers)
BlockBits == 16

Anchor(n, d, j) ==
  LET a1 == (n * 2^BlockBits) % d
      a2 == (a1 * 2^BlockBits) % d
      a3 == (a2 * 2^BlockBits) % d
  IN IF j = 0 THEN n ELSE IF j = 1 THEN a1 ELSE IF j = 2 THEN a2 ELSE a3

Remainder(n, d, i) == (Anchor(n, d, i \div BlockBits) * 2^(i % BlockBits)) % d

\* the double nearest to n / d, where d / 2 <= n < d, times 2^exponent
QuotientOf(n, d, exponent) ==
  Only({RoundToDouble(bits, exponent, Remainder(n, d, MantissaBits + 1) # 0) :
        bits \in {SubSeq([i \in 1..(MantissaBits + 1) |-> (2 * Remainder(n, d, i - 1)) \div d],
                         1, MantissaBits + 1)}})

\* the largest shift the scaling of a quotient takes
MaxShift == 14

\* a / b = (n / d) * 2^exponent with d / 2 <= n < d, as <<n, d, exponent>>,
\* for integers 0 < a < 2^14 and 0 < b < 2^14
Scaled(a, b) ==
  IF a >= b
  THEN Only({<<a, b * 2^k, k>> :
             k \in {CHOOSE k \in 1..MaxShift :
                      a < b * 2^k /\ \A j \in 1..(k - 1) : a >= b * 2^j}})
  ELSE Only({<<a * 2^k, b, 0 - k>> :
             k \in {CHOOSE k \in 0..MaxShift :
                      2 * a * 2^k >= b /\ \A j \in 0..(k - 1) : 2 * a * 2^j < b}})

\* a / b for integers 0 <= a < 2^14 and 0 < b < 2^14
DoubleQuotient(a, b) ==
  IF a = 0 THEN Zero
  ELSE Only({QuotientOf(s[1], s[2], s[3]) : s \in {Scaled(a, b)}})

\* the integer the places from..to of a run of bits spell
ValueOf(bits, from, to) ==
  LET value[upTo \in (from - 1)..to] ==
        IF upTo = from - 1 THEN 0 ELSE 2 * value[upTo - 1] + bits[upTo]
  IN value[to]

\* mantissa * k for 1 <= k < 128, by limbs of 5, 16, 16 and 16 places from
\* the last limb on, each taking the carry of the one behind it: the four
\* sums, first limb first
LimbSums(mantissa, k) ==
  LET t4 == ValueOf(mantissa, 38, 53) * k
      t3 == ValueOf(mantissa, 22, 37) * k + t4 \div 2^BlockBits
      t2 == ValueOf(mantissa, 6, 21) * k + t3 \div 2^BlockBits
      t1 == ValueOf(mantissa, 1, 5) * k + t2 \div 2^BlockBits
  IN <<t1, t2, t3, t4>>

\* the sixty places of mantissa * k: twelve of the first sum, the last
\* sixteen of each other sum
ProductBits(mantissa, k) ==
  Only({[j \in 1..60 |->
           IF j <= 12 THEN (sums[1] \div 2^(12 - j)) % 2
           ELSE (sums[2 + (j - 13) \div BlockBits]
                   \div 2^(BlockBits - 1 - ((j - 13) % BlockBits))) % 2] :
        sums \in {LimbSums(mantissa, k)}})

\* the places of a product from its first 1 on, rounded
ProductOf(full, exponent) ==
  LET first == CHOOSE i \in 1..Len(full) : full[i] = 1 /\ \A j \in 1..(i - 1) : full[j] = 0
  IN Only({RoundToDouble(bits, exponent + 8 - first, FALSE) :
           bits \in {SubSeq(full, first, Len(full))}})

\* x * k for a double x and an integer 1 <= k < 128
DoubleTimes(x, k) ==
  Only({IF y = Zero THEN Zero
        ELSE Only({ProductOf(full, y.exponent) : full \in {ProductBits(y.mantissa, k)}}) :
        y \in {x}})

\* Math.round of a double 0 <= x < 2^31: the nearest integer, a half goes up
MathRound(x) ==
  Only({IF y = Zero \/ y.exponent < 0 THEN 0
        ELSE ValueOf(y.mantissa, 1, y.exponent) + y.mantissa[y.exponent + 1] :
        y \in {x}})

\* Math.round((totalSpent / totalBudget) * 100)
burnRateOf(totalSpent, totalBudget) ==
  Only({Only({MathRound(DoubleTimes(DoubleQuotient(spent, budget), 100)) :
              spent \in {totalSpent}}) : budget \in {totalBudget}})

\* Math.ceil of the quotient n / d of a non-negative integer by a positive one
MathCeil(n, d) == (n + d - 1) \div d

\* ---------------------------------------------------- api/kpis.ts pipeline

pageSizeApi == 5

NumericKeys == {"budget", "spent"}

SortKeysApi == {"createdAt", "name", "owner", "budget", "spent", "status"}

\* String(v ?? "") of an optional number
OptionalToString(v) == IF v = null THEN <<>> ELSE NumberToString(v[1])

\* the text of a record's field (a status is kept as its label)
FieldText(p, key) == IF key = "status" THEN StatusText(p.status) ELSE p[key]

normalize(s) == trim(toLowerCase(s))

\* compare(a, b): a missing value before any present one, numbers by
\* difference, anything else by localeCompare of its text
compare(a, b, key) ==
  IF key \in NumericKeys
  THEN IF a[key] = null /\ b[key] = null THEN 0
       ELSE IF a[key] = null THEN -1
       ELSE IF b[key] = null THEN 1
       ELSE a[key][1] - b[key][1]
  ELSE localeCompare(FieldText(a, key), FieldText(b, key))

hay(p) ==
  join(<<normalize(p.name), normalize(p.owner), normalize(NumberToString(p.id)),
         normalize(StatusText(p.status)), normalize(OptionalToString(p.budget)),
         normalize(OptionalToString(p.spent)), normalize(p.createdAt)>>)

\* a callback that leaves the status filter out
matchesApiAnyStatus(p, q, sf) == q = <<>> \/ includes(hay(p), q)

\* the callback of projects.filter, q the normalized query
matchesApi(p, q, sf) ==
  IF q = <<>>
  THEN (sf = "ALL" \/ p.status = sf)
  ELSE (sf = "ALL" \/ p.status = sf) /\ includes(hay(p), q)

\* a filter that hands back its matches last one first
filterApiReversing(list, qry, sf) ==
  LET q == normalize(qry) IN Reverse(SelectSeq(list, LAMBDA p : matchesApi(p, q, sf)))

\* the filter step of filteredProjects
filterApi(list, qry, sf) ==
  LET q == normalize(qry) IN SelectSeq(list, LAMBDA p : matchesApi(p, q, sf))

\* a comparator that applies the direction to present values only and puts
\* a missing value first in both directions
sortComparatorNullsFirst(a, b, key, dir) ==
  IF key \in NumericKeys /\ (a[key] = null \/ b[key] = null) THEN compare(a, b, key)
  ELSE IF dir = "asc" THEN compare(a, b, key) ELSE 0 - compare(a, b, key)

sortComparatorApi(a, b, key, dir) ==
  IF dir = "asc" THEN compare(a, b, key) ELSE 0 - compare(a, b, key)

\* a sort that keeps, of the records that compare equal, the one of least id
sortApiMerging(list, key, dir) ==
  LET sorted == Only({sort(array, [i \in 1..Len(array), j \in 1..Len(array) |->
                                     sortComparatorApi(array[i], array[j], key, dir)]) :
                      array \in {list}})
  IN SelectSeq(sorted, LAMBDA r : ~ \E j \in 1..Len(sorted) :
                 sorted[j].id < r.id /\ compare(sorted[j], r, key) = 0)

\* a sort that gets the descending order by reversing the ascending one
sortApiReversing(list, key, dir) ==
  LET ascending == Only({sort(array, [i \in 1..Len(array), j \in 1..Len(array) |->
                                        compare(array[i], array[j], key)]) :
                         array \in {list}})
  IN IF dir = "asc" THEN ascending ELSE Reverse(ascending)

\* the sort step of filteredProjects
sortApi(list, key, dir) ==
  Only({sort(array, [i \in 1..Len(array), j \in 1..Len(array) |->
                       sortComparatorApi(array[i], array[j], key, dir)]) :
        array \in {list}})

\* calculateKPIs (the amounts before their display formatting)
calculateKPIs(projects) ==
  [totalBudget |-> reduceSum(projects, "budget"),
   totalSpent |-> reduceSum(projects, "spent"),
   activeCount |-> Len(SelectSeq(projects, LAMBDA p : p.status = "ACTIVE")),
   burnRate |-> IF reduceSum(projects, "budget") <= 0 THEN 0
                ELSE burnRateOf(reduceSum(projects, "spent"),
                                reduceSum(projects, "budget"))]

\* a breakdown that leaves out the statuses no record has
countByStatusPresent(projects) ==
  SelectSeq(<<[name |-> "ACTIVE", value |-> Len(SelectSeq(projects, LAMBDA p : p.status = "ACTIVE"))],
              [name |-> "PAUSED", value |-> Len(SelectSeq(projects, LAMBDA p : p.status = "PAUSED"))],
              [name |-> "DONE", value |-> Len(SelectSeq(projects, LAMBDA p : p.status = "DONE"))]>>,
            LAMBDA entry : entry.value > 0)

\* countByStatus of ChartsPanel
countByStatus(projects) ==
  <<[name |-> "ACTIVE", value |-> Len(SelectSeq(projects, LAMBDA p : p.status = "ACTIVE"))],
    [name |-> "PAUSED", value |-> Len(SelectSeq(projects, LAMBDA p : p.status = "PAUSED"))],
    [name |-> "DONE", value |-> Len(SelectSeq(projects, LAMBDA p : p.status = "DONE"))]>>

TopCount == 6

OrZero(v) == IF v = null THEN 0 ELSE v[1]

topBudgetComparator(a, b) == OrZero(b.budget) - OrZero(a.budget)

\* topBudget of ChartsPanel
topBudget(projects) ==
  Only({[i \in 1..Len(top) |->
           [id |-> top[i].id, name |-> top[i].name,
            budget |-> OrZero(top[i].budget), spent |-> OrZero(top[i].spent)]] :
        top \in {slice(sort(projects, [i \in 1..Len(projects), j \in 1..Len(projects) |->
                                         topBudgetComparator(projects[i], projects[j])]), 0, TopCount)}})

\* a page count without its floor of 1
totalPagesUnfloored(n) == MathCeil(n, pageSizeApi)

totalPagesApi(n) == Max(1, MathCeil(n, pageSizeApi))

\* the page state taken as it is
safePageUnclamped(pg, tp) == pg

safePageApi(pg, tp) == Min(pg, tp)

\* a page that starts one record late
pagedProjectsShifted(list, pg) ==
  LET start == (safePageApi(pg, totalPagesApi(Len(list))) - 1) * pageSizeApi + 1
  IN slice(list, start, start + pageSizeApi)

\* a page cut at the page state itself instead of the displayed index
pagedProjectsFromPage(list, pg) ==
  slice(list, (pg - 1) * pageSizeApi, (pg - 1) * pageSizeApi + pageSizeApi)

\* pagedProjects for a filtered+sorted list and a page state pg
pagedProjectsAt(list, pg) ==
  LET start == (safePageApi(pg, totalPagesApi(Len(list))) - 1) * pageSizeApi
  IN slice(list, start, start + pageSizeApi)

\* ------------------------------------------- pages/DashboardPage.tsx pipeline

pageSizePages == 6

SortKeysPages == {"createdAt", "budget", "spent"}

clamp(n, min, max) == Max(min, Min(max, n))

\* the callback of items.filter, qq the trimmed and lower-cased query
matchesPages(p, qq, st) ==
  /\ \/ qq = <<>>
     \/ includes(toLowerCase(p.name), qq)
     \/ includes(toLowerCase(p.owner), qq)
     \/ includes(NumberToString(p.id), qq)
  /\ (st = "ALL" \/ p.status = st)

\* the filter step of filteredSorted
filterPages(items, q, st) ==
  LET qq == toLowerCase(trim(q)) IN SelectSeq(items, LAMBDA p : matchesPages(p, qq, st))

\* av / bv of the sort comparator of filteredSorted
sortValuePages(p, key) ==
  IF key = "createdAt" THEN getTime(p.createdAt) ELSE p[key][1]

sortComparatorPages(a, b, key, dir) ==
  IF dir = "asc" THEN sortValuePages(a, key) - sortValuePages(b, key)
  ELSE sortValuePages(b, key) - sortValuePages(a, key)

\* the sort step of filteredSorted
sortPages(list, key, dir) ==
  Only({sort(array, [i \in 1..Len(array), j \in 1..Len(array) |->
                       sortComparatorPages(array[i], array[j], key, dir)]) :
        array \in {list}})

\* kpis of pages/DashboardPage.tsx
kpisPages(items) ==
  [totalBudget |-> reduceSum(items, "budget"),
   totalSpent |-> reduceSum(items, "spent"),
   active |-> Len(SelectSeq(items, LAMBDA p : p.status = "ACTIVE")),
   burn |-> IF reduceSum(items, "budget") <= 0 THEN 0
            ELSE burnRateOf(reduceSum(items, "spent"), reduceSum(items, "budget"))]

\* statusPie: counts[p.status]++ over the items
statusPie(items) ==
  <<[name |-> "ACTIVE", value |-> Cardinality({i \in 1..Len(items) : items[i].status = "ACTIVE"})],
    [name |-> "PAUSED", value |-> Cardinality({i \in 1..Len(items) : items[i].status = "PAUSED"})],
    [name |-> "DONE", value |-> Cardinality({i \in 1..Len(items) : items[i].status = "DONE"})]>>

budgetBarsComparator(a, b) == b.budget[1] - a.budget[1]

\* budgetBars: top 6 by budget
budgetBars(items) ==
  Only({[i \in 1..Len(top) |->
           [name |-> top[i].name, budget |-> top[i].budget[1], spent |-> top[i].spent[1]]] :
        top \in {slice(sort(items, [i \in 1..Len(items), j \in 1..Len(items) |->
                                      budgetBarsComparator(items[i], items[j])]), 0, TopCount)}})

totalPagesPages(n) == Max(1, MathCeil(n, pageSizePages))

safePagePages(pg, tp) == clamp(pg, 1, tp)

\* pageItems for a filtered+sorted list and a page state pg
pageItemsAt(list, pg) ==
  LET sp == safePagePages(pg, totalPagesPages(Len(list)))
  IN slice(list, (sp - 1) * pageSizePages, sp * pageSizePages)

\* ------------------------------------------------------------------- state

VARIABLES
  component,     \* which DashboardPage is mounted: "api" or "pages"
  store,         \* the records of the record source, in its order
  data,          \* projectsQuery.data: null (undefined) or <<the snapshot>>
  queryStatus,   \* projectsQuery.status: "pending", "success" or "error"
  fetching,      \* a fetch of ["projects"] is in flight
  createStatus,  \* createMutation.status
  createVars,    \* the payload of the create in flight, or null
  deleteStatus,  \* deleteMutation.status
  deleteVars,    \* the id of the delete in flight, or null
  mutations,     \* create and delete requests issued so far
  query, statusFilter, sortKey, sortDir, page

vars ==
  <<component, store, data, queryStatus, fetching, createStatus, createVars,
    deleteStatus, deleteVars, mutations, query, statusFilter, sortKey, sortDir, page>>

uiVars == <<query, statusFilter, sortKey, sortDir, page>>

sourceVars == <<store, data, queryStatus, fetching>>

mutationVars == <<createStatus, createVars, deleteStatus, deleteVars, mutations>>

Components == {"api", "pages"}

Statuses == {"ACTIVE", "PAUSED", "DONE"}

StatusFilters == {"ALL"} \cup Statuses

SortDirs == {"asc", "desc"}

\* a field the Project type declares a number: api/kpis.ts allows for its
\* absence (p.budget ?? 0, compare's null rule), pages/DashboardPage.tsx
\* relies on the type
Optional(c, n) == IF c = "api" THEN null ELSE Some(n)

\* the records a store is drawn from
Catalogue(c) ==
  <<[id |-> 1, name |-> <<"A", "l">>, owner |-> <<"B", "o">>, status |-> "ACTIVE",
     budget |-> Some(100), spent |-> Some(40),
     createdAt |-> <<"2", "0", "2", "6", "-", "0", "1", "-", "0", "5">>],
    [id |-> 2, name |-> <<"b", "o">>, owner |-> <<"A", "l", " ">>, status |-> "PAUSED",
     budget |-> Some(300), spent |-> Some(120),
     createdAt |-> <<"2", "0", "2", "6", "-", "0", "2", "-", "3", "0">>],
    [id |-> 3, name |-> <<"a", "l">>, owner |-> <<"C", "y">>, status |-> "ACTIVE",
     budget |-> Some(200), spent |-> Some(90),
     createdAt |-> <<"2", "0", "2", "6", "-", "0", "3", "-", "0", "1">>],
    [id |-> 4, name |-> <<"C", "y">>, owner |-> <<"B", "o">>, status |-> "DONE",
     budget |-> Optional(c, 0), spent |-> Optional(c, 0),
     createdAt |-> <<"2", "0", "2", "6", "-", "0", "1", "-", "0", "5">>],
    [id |-> 5, name |-> <<"D", "i">>, owner |-> <<"C", "y">>, status |-> "ACTIVE",
     budget |-> Some(50), spent |-> Some(40),
     createdAt |-> <<"2", "0", "2", "5", "-", "1", "2", "-", "3", "1">>],
    [id |-> 6, name |-> <<"e", "d">>, owner |-> <<"D", "i">>, status |-> "PAUSED",
     budget |-> Optional(c, 75), spent |-> Some(80),
     createdAt |-> <<"2", "0", "2", "6", "-", "0", "3", "-", "0", "2">>],
    [id |-> 7, name |-> <<"B", "o">>, owner |-> <<"a", "l">>, status |-> "DONE",
     budget |-> Some(200), spent |-> Some(210),
     createdAt |-> <<"2", "0", "2", "6", "-", "0", "2", "-", "2", "8">>]>>

\* the contents of the store when the page is mounted: one record more
\* than a page holds
InitStores(c) ==
  {SubSeq(Catalogue(c), 1, (IF c = "api" THEN pageSizeApi ELSE pageSizePages) + 1)}

\* what the user types into the search box, and picks in the status and
\* sort selects, while the record source is at work
Queries == {<<>>, <<" ", "A", "L">>}

StatusChoices == {"ALL", "ACTIVE"}

SortChoices == {"createdAt", "budget"}

\* the same, for the pipeline on a fixed snapshot
PipelineQueries ==
  {<<>>, <<" ", "A", "L">>, <<"a", "c", "t">>, <<"a", "l", " ", "2">>, <<"2", "0", "0">>}

\* a second copy of a record under a new id
Clone(r, id) ==
  [id |-> id, name |-> r.name, owner |-> r.owner, status |-> r.status,
   budget |-> r.budget, spent |-> r.spent, createdAt |-> r.createdAt]

\* the catalogue followed by copies of its first five records
LongStore(c) ==
  Catalogue(c) \o [i \in 1..5 |-> Clone(Catalogue(c)[i], Len(Catalogue(c)) + i)]

\* the snapshots the pipeline is run on
PipelineStores(c) == {<<>>, Catalogue(c), Reverse(Catalogue(c)), LongStore(c)}

\* today's date, as new Date().toISOString().slice(0, 10) gives it
Today == <<"2", "0", "2", "6", "-", "0", "3", "-", "0", "3">>

\* what the user enters into the create form: a project that has spent more
\* than its budget; one within its budget and with a name of two blanks; one
\* with a negative budget; one with a date that lacks its zeros (a field of
\* api/kpis.ts only, pages/DashboardPage.tsx has none)
FormInputs ==
  {[name |-> <<"E", "d">>, owner |-> <<"B", "o">>, status |-> "ACTIVE",
    budget |-> 50, spent |-> 80, createdAt |-> Today],
   [name |-> <<" ", " ">>, owner |-> <<"B", "o">>, status |-> "ACTIVE",
    budget |-> 80, spent |-> 50, createdAt |-> Today],
   [name |-> <<"E", "d">>, owner |-> <<"B", "o">>, status |-> "ACTIVE",
    budget |-> 0 - 5, spent |-> 80, createdAt |-> Today],
   [name |-> <<"E", "d">>, owner |-> <<"B", "o">>, status |-> "ACTIVE",
    budget |-> 50, spent |-> 80, createdAt |-> <<"2", "0", "2", "6", "-", "3", "-", "3">>]}

SortKeys == IF component = "api" THEN SortKeysApi ELSE SortKeysPages

\* ----------------------------------------------------- the derived artifacts

\* const projects = projectsQuery.data ?? []
projects == IF data = null THEN <<>> ELSE data[1]

filteredProjects == sortApi(filterApi(projects, query, statusFilter), sortKey, sortDir)

filteredSorted == sortPages(filterPages(projects, query, statusFilter), sortKey, sortDir)

\* the filtered+sorted collection of the mounted component
Rows == IF component = "api" THEN filteredProjects ELSE filteredSorted

\* the filter step alone
Filtered ==
  IF component = "api" THEN filterApi(projects, query, statusFilter)
  ELSE filterPages(projects, query, statusFilter)

\* the filter step of the mounted component on any list, with the query and
\* the status filter of the state
FilterOf(list) ==
  IF component = "api" THEN filterApi(list, query, statusFilter)
  ELSE filterPages(list, query, statusFilter)

pageSize == IF component = "api" THEN pageSizeApi ELSE pageSizePages

totalPages ==
  IF component = "api" THEN totalPagesApi(Len(filteredProjects))
  ELSE totalPagesPages(Len(filteredSorted))

\* the displayed page index for a page state pg and tp pages
SafePageOf(pg, tp) ==
  IF component = "api" THEN safePageApi(pg, tp) ELSE safePagePages(pg, tp)

safePage == SafePageOf(page, totalPages)

pagedProjects == Only({pagedProjectsAt(list, page) : list \in {filteredProjects}})

pageItems == Only({pageItemsAt(list, page) : list \in {filteredSorted}})

\* the visible page of the mounted component
VisiblePage == IF component = "api" THEN pagedProjects ELSE pageItems

\* the four KPIs of a list, under the names of calculateKPIs
KpisOf(list) ==
  IF component = "api" THEN calculateKPIs(list)
  ELSE Only({[totalBudget |-> k.totalBudget, totalSpent |-> k.totalSpent,
              activeCount |-> k.active, burnRate |-> k.burn] :
             k \in {kpisPages(list)}})

\* the KPIs computed from the whole snapshot instead
kpisOfSnapshot == Only({KpisOf(list) : list \in {projects}})

\* the four KPIs of the mounted component
kpis == Only({KpisOf(list) : list \in {Rows}})

StatusDataOf(list) ==
  IF component = "api" THEN countByStatus(list) ELSE statusPie(list)

\* the status breakdown computed from the visible page instead
statusDataOfPage == Only({StatusDataOf(list) : list \in {VisiblePage}})

\* the status breakdown of the mounted component
statusData == Only({StatusDataOf(list) : list \in {Rows}})

TopBudgetsOf(list) ==
  IF component = "api" THEN topBudget(list) ELSE budgetBars(list)

\* the top-budgets dataset of the mounted component
TopBudgets == Only({TopBudgetsOf(list) : list \in {Rows}})

isLoading == queryStatus = "pending" /\ fetching

\* the table shows the rows of the visible page (and their Delete buttons)
RowsShown ==
  IF component = "api" THEN ~isLoading
  ELSE ~isLoading /\ queryStatus # "error"

\* the messages of the three requests; an error is held while the status of
\* its request is "error"
FetchMessage == "Failed to fetch"

CreateMessage == "Create failed"

DeleteMessage == "Delete failed"

\* a banner that takes the lack of a snapshot for a failed fetch
errorMsgWithoutData ==
  IF queryStatus = "error" \/ data = null THEN Some(FetchMessage)
  ELSE IF createStatus = "error" THEN Some(CreateMessage)
  ELSE IF deleteStatus = "error" THEN Some(DeleteMessage)
  ELSE null

\* projectsQuery.error?.message ?? createMutation.error?.message ??
\* deleteMutation.error?.message: the text of the banner of api/kpis.ts,
\* null when there is none
errorMsg ==
  IF queryStatus = "error" THEN Some(FetchMessage)
  ELSE IF createStatus = "error" THEN Some(CreateMessage)
  ELSE IF deleteStatus = "error" THEN Some(DeleteMessage)
  ELSE null

\* the failure messages on the screen: the banner of api/kpis.ts; in
\* pages/DashboardPage.tsx the line in place of the table and the line under
\* the create form (delMut's error is rendered nowhere)
MessagesShown ==
  IF component = "api" THEN {errorMsg[i] : i \in 1..Len(errorMsg)}
  ELSE (IF ~isLoading /\ queryStatus = "error" THEN {FetchMessage} ELSE {})
       \cup (IF createStatus = "error" THEN {CreateMessage} ELSE {})

\* ------------------------------------------------- the arrays of a render
\* An array is an object and the render holds references to arrays: a
\* reference is an index into the sequence of the arrays made so far. filter,
\* slice, map and the spread make a new array; sort reorders the array it is
\* called on and returns that same array.

Allocated(heap, array) == [heap |-> Append(heap, array), ref |-> Len(heap) + 1]

\* a copy that hands back the array it was given
spreadShared(heap, ref) == [heap |-> heap, ref |-> ref]

\* [...projects] and .slice(): a new array of the same elements
spread(heap, ref) == Allocated(heap, heap[ref])

\* Array.prototype.sort, given the order it produces
sortInPlace(heap, ref, sorted) == [heap |-> [heap EXCEPT ![ref] = sorted], ref |-> ref]

\* one render of api/kpis.ts with ChartsPanel: the arrays it leaves behind
renderApi ==
  LET snapshot == Allocated(<<>>, projects)
      list == Allocated(snapshot.heap,
                        filterApi(snapshot.heap[snapshot.ref], query, statusFilter))
      sorted == sortInPlace(list.heap, list.ref,
                            sortApi(list.heap[list.ref], sortKey, sortDir))
      paged == Allocated(sorted.heap, pagedProjectsAt(sorted.heap[sorted.ref], page))
      copy == spread(paged.heap, sorted.ref)
      byBudget == sortInPlace(copy.heap, copy.ref,
                    Only({sort(array, [i \in 1..Len(array), j \in 1..Len(array) |->
                                         topBudgetComparator(array[i], array[j])]) :
                          array \in {copy.heap[copy.ref]}}))
      top == Allocated(byBudget.heap, slice(byBudget.heap[byBudget.ref], 0, TopCount))
      mapped == Allocated(top.heap,
                  [i \in 1..Len(top.heap[top.ref]) |->
                     [id |-> top.heap[top.ref][i].id, name |-> top.heap[top.ref][i].name,
                      budget |-> OrZero(top.heap[top.ref][i].budget),
                      spent |-> OrZero(top.heap[top.ref][i].spent)]])
  IN [heap |-> mapped.heap, snapshot |-> snapshot.ref, rows |-> sorted.ref,
      page |-> paged.ref, top |-> mapped.ref]

\* one render of pages/DashboardPage.tsx: the arrays it leaves behind
renderPages ==
  LET snapshot == Allocated(<<>>, projects)
      items == spread(snapshot.heap, snapshot.ref)
      filtered == Allocated(items.heap,
                            filterPages(items.heap[items.ref], query, statusFilter))
      sorted == sortInPlace(filtered.heap, filtered.ref,
                            sortPages(filtered.heap[filtered.ref], sortKey, sortDir))
      paged == Allocated(sorted.heap, pageItemsAt(sorted.heap[sorted.ref], page))
      copy == spread(paged.heap, sorted.ref)
      byBudget == sortInPlace(copy.heap, copy.ref,
                    Only({sort(array, [i \in 1..Len(array), j \in 1..Len(array) |->
                                         budgetBarsComparator(array[i], array[j])]) :
                          array \in {copy.heap[copy.ref]}}))
      top == Allocated(byBudget.heap, slice(byBudget.heap[byBudget.ref], 0, TopCount))
      mapped == Allocated(top.heap,
                  [i \in 1..Len(top.heap[top.ref]) |->
                     [name |-> top.heap[top.ref][i].name,
                      budget |-> top.heap[top.ref][i].budget[1],
                      spent |-> top.heap[top.ref][i].spent[1]]])
  IN [heap |-> mapped.heap, snapshot |-> snapshot.ref, rows |-> sorted.ref,
      page |-> paged.ref, top |-> mapped.ref]

\* the arrays of a render of the mounted component
Render == IF component = "api" THEN renderApi ELSE renderPages

\* ---------------------------------------------------------------- the form

\* /^\d{4}-\d{2}-\d{2}$/
IsDateShape(s) ==
  /\ Len(s) = 10
  /\ \A i \in {1, 2, 3, 4, 6, 7, 9, 10} : IsIn(s[i], Digits)
  /\ s[5] = "-" /\ s[8] = "-"

\* projectSchema of api/kpis.ts accepts the form values
projectSchema(v) ==
  /\ Len(trim(v.name)) >= 2
  /\ Len(trim(v.owner)) >= 2
  /\ v.status \in Statuses
  /\ v.budget >= 0
  /\ v.spent >= 0
  /\ IsDateShape(trim(v.createdAt))

\* schema of pages/DashboardPage.tsx accepts the form values
schema(v) ==
  /\ Len(v.name) >= 2
  /\ Len(v.owner) >= 2
  /\ v.status \in Statuses
  /\ v.budget >= 0
  /\ v.spent >= 0

\* the payload the form of api/kpis.ts hands to createMutation.mutate
payloadApi(v) ==
  [name |-> trim(v.name), owner |-> trim(v.owner), status |-> v.status,
   budget |-> Some(v.budget), spent |-> Some(v.spent), createdAt |-> trim(v.createdAt)]

\* a payload that carries the entered amounts as they are
onSubmitUnclamped(v) ==
  [name |-> v.name, owner |-> v.owner, status |-> v.status,
   budget |-> Some(v.budget), spent |-> Some(v.spent), createdAt |-> Today]

\* the payload onSubmit of pages/DashboardPage.tsx hands to createMut.mutate
onSubmit(v) ==
  [name |-> v.name, owner |-> v.owner, status |-> v.status,
   budget |-> Some(v.budget), spent |-> Some(Min(v.spent, v.budget)), createdAt |-> Today]

\* ------------------------------------------------------- the record source

Ids(list) == {list[i].id : i \in 1..Len(list)}

\* the id the store gives a new record
NextId(list) == IF list = <<>> THEN 1 ELSE 1 + (CHOOSE m \in Ids(list) : \A k \in Ids(list) : k <= m)

\* the record the store keeps for a create payload
Stored(payload, id) ==
  [id |-> id, name |-> payload.name, owner |-> payload.owner, status |-> payload.status,
   budget |-> payload.budget, spent |-> payload.spent, createdAt |-> payload.createdAt]

\* ----------------------------------------------------------------- actions

Init ==
  /\ component \in Components
  /\ store \in InitStores(component)
  /\ data = null
  /\ queryStatus = "pending"
  /\ fetching = TRUE
  /\ createStatus = "idle"
  /\ createVars = null
  /\ deleteStatus = "idle"
  /\ deleteVars = null
  /\ mutations = 0
  /\ query = <<>>
  /\ statusFilter = "ALL"
  /\ sortKey = "createdAt"
  /\ sortDir = "desc"
  /\ page = 1

\* the fetch of ["projects"] answers with the store's records
FetchSuccess ==
  /\ fetching
  /\ data' = Some(store)
  /\ queryStatus' = "success"
  /\ fetching' = FALSE
  /\ UNCHANGED <<component, store, mutationVars, uiVars>>

\* the fetch of ["projects"] fails: the last snapshot, if any, is kept
FetchError ==
  /\ fetching
  /\ queryStatus' = "error"
  /\ fetching' = FALSE
  /\ UNCHANGED <<component, store, data, mutationVars, uiVars>>

\* the status of the query when a fetch starts: a query that holds no
\* snapshot goes back to "pending" and drops its error, one that holds a
\* snapshot keeps its status until the fetch answers
statusOnFetch == IF data = null THEN "pending" ELSE queryStatus

\* the query is fetched again (window focus, reconnect)
Refetch ==
  /\ ~fetching
  /\ fetching' = TRUE
  /\ queryStatus' = statusOnFetch
  /\ UNCHANGED <<component, store, data, mutationVars, uiVars>>

\* the search box: setQuery, and the page goes back to 1 (the effect on
\* [query, statusFilter, sortKey, sortDir] in api/kpis.ts, setPage(1) in the
\* handler of pages/DashboardPage.tsx)
SetQuery(q) ==
  /\ q # query
  /\ query' = q
  /\ page' = 1
  /\ UNCHANGED <<component, sourceVars, mutationVars, statusFilter, sortKey, sortDir>>

\* the status select
SetStatusFilter(sf) ==
  /\ sf # statusFilter
  /\ statusFilter' = sf
  /\ page' = 1
  /\ UNCHANGED <<component, sourceVars, mutationVars, query, sortKey, sortDir>>

\* the sort select: api/kpis.ts resets the page in its effect,
\* pages/DashboardPage.tsx only calls setSort
SetSortKey(k) ==
  /\ k \in SortKeys
  /\ k # sortKey
  /\ sortKey' = k
  /\ page' = IF component = "api" THEN 1 ELSE page
  /\ UNCHANGED <<component, sourceVars, mutationVars, query, statusFilter, sortDir>>

\* the direction button: api/kpis.ts resets the page in its effect,
\* pages/DashboardPage.tsx only calls setDir
ToggleSortDir ==
  /\ sortDir' = IF sortDir = "asc" THEN "desc" ELSE "asc"
  /\ page' = IF component = "api" THEN 1 ELSE page
  /\ UNCHANGED <<component, sourceVars, mutationVars, query, statusFilter, sortKey>>

\* the Prev button, disabled when safePage <= 1
Prev ==
  /\ safePage > 1
  /\ page' = Max(1, page - 1)
  /\ UNCHANGED <<component, sourceVars, mutationVars, query, statusFilter, sortKey, sortDir>>

\* the Next button, disabled when safePage >= totalPages
NextPage ==
  /\ LET tp == totalPages
     IN /\ SafePageOf(page, tp) < tp
        /\ page' = Min(tp, page + 1)
  /\ UNCHANGED <<component, sourceVars, mutationVars, query, statusFilter, sortKey, sortDir>>

\* the create form is submitted with values its schema accepts
SubmitCreate(v) ==
  /\ createStatus # "pending"
  /\ mutations < MaxMutations
  /\ IF component = "api" THEN projectSchema(v) ELSE schema(v)
  /\ createStatus' = "pending"
  /\ createVars' = Some(IF component = "api" THEN payloadApi(v) ELSE onSubmit(v))
  /\ mutations' = mutations + 1
  /\ UNCHANGED <<component, sourceVars, deleteStatus, deleteVars, uiVars>>

\* a successful create that does not invalidate ["projects"]
CreateSuccessSilent ==
  /\ createStatus = "pending"
  /\ Len(store) < MaxStore
  /\ store' = Append(store, Stored(createVars[1], NextId(store)))
  /\ createStatus' = "success"
  /\ createVars' = null
  /\ UNCHANGED <<component, data, queryStatus, fetching, deleteStatus, deleteVars,
                 mutations, uiVars>>

\* the store takes the record; onSuccess invalidates ["projects"]
CreateSuccess ==
  /\ createStatus = "pending"
  /\ Len(store) < MaxStore
  /\ store' = Append(store, Stored(createVars[1], NextId(store)))
  /\ createStatus' = "success"
  /\ createVars' = null
  /\ fetching' = TRUE
  /\ queryStatus' = statusOnFetch
  /\ UNCHANGED <<component, data, deleteStatus, deleteVars, mutations, uiVars>>

\* a failing create that invalidates ["projects"] all the same
CreateErrorInvalidating ==
  /\ createStatus = "pending"
  /\ createStatus' = "error"
  /\ createVars' = null
  /\ fetching' = TRUE
  /\ queryStatus' = statusOnFetch
  /\ UNCHANGED <<component, store, data, deleteStatus, deleteVars, mutations, uiVars>>

\* the create request fails
CreateError ==
  /\ createStatus = "pending"
  /\ createStatus' = "error"
  /\ createVars' = null
  /\ UNCHANGED <<component, sourceVars, deleteStatus, deleteVars, mutations, uiVars>>

\* the Delete button of a row of the visible page
ClickDelete ==
  /\ deleteStatus # "pending"
  /\ mutations < MaxMutations
  /\ RowsShown
  /\ \E id \in Ids(VisiblePage) : deleteVars' = Some(id)
  /\ deleteStatus' = "pending"
  /\ mutations' = mutations + 1
  /\ UNCHANGED <<component, sourceVars, createStatus, createVars, uiVars>>

\* the store drops the record; onSuccess invalidates ["projects"]
DeleteSuccess ==
  /\ deleteStatus = "pending"
  /\ deleteVars[1] \in Ids(store)
  /\ store' = SelectSeq(store, LAMBDA r : r.id # deleteVars[1])
  /\ deleteStatus' = "success"
  /\ deleteVars' = null
  /\ fetching' = TRUE
  /\ queryStatus' = statusOnFetch
  /\ UNCHANGED <<component, data, createStatus, createVars, mutations, uiVars>>

\* the delete request fails
DeleteError ==
  /\ deleteStatus = "pending"
  /\ deleteStatus' = "error"
  /\ deleteVars' = null
  /\ UNCHANGED <<component, sourceVars, createStatus, createVars, mutations, uiVars>>

Next ==
  \/ FetchSuccess
  \/ FetchError
  \/ Refetch
  \/ \E q \in Queries : SetQuery(q)
  \/ \E sf \in StatusChoices : SetStatusFilter(sf)
  \/ \E k \in SortChoices : SetSortKey(k)
  \/ ToggleSortDir
  \/ Prev
  \/ NextPage
  \/ \E v \in FormInputs : SubmitCreate(v)
  \/ CreateSuccess
  \/ CreateError
  \/ ClickDelete
  \/ DeleteSuccess
  \/ DeleteError

Spec == Init /\ [][Next]_vars

\* ------------------------------------------- the dashboard, fetches answered

\* the dashboard while every fetch of the list succeeds: a fetch in flight
\* is answered in the end
NextRefetch ==
  \/ FetchSuccess
  \/ Refetch
  \/ \E q \in Queries : SetQuery(q)
  \/ \E sf \in StatusChoices : SetStatusFilter(sf)
  \/ \E k \in SortChoices : SetSortKey(k)
  \/ ToggleSortDir
  \/ Prev
  \/ NextPage
  \/ \E v \in FormInputs : SubmitCreate(v)
  \/ CreateSuccess
  \/ CreateError
  \/ ClickDelete
  \/ DeleteSuccess
  \/ DeleteError

SpecRefetch == Init /\ [][NextRefetch]_vars /\ WF_vars(FetchSuccess)

\* --------------------------------------- the dashboard on a three-page list

\* a store of one record more than two pages: the catalogue followed by
\* copies of its first records
PagingStore(c) ==
  LET size == 2 * (IF c = "api" THEN pageSizeApi ELSE pageSizePages) + 1
  IN Catalogue(c) \o [i \in 1..(size - Len(Catalogue(c))) |->
                        Clone(Catalogue(c)[i], Len(Catalogue(c)) + i)]

InitPaging ==
  /\ component \in Components
  /\ store = PagingStore(component)
  /\ data = null
  /\ queryStatus = "pending"
  /\ fetching = TRUE
  /\ createStatus = "idle"
  /\ createVars = null
  /\ deleteStatus = "idle"
  /\ deleteVars = null
  /\ mutations = 0
  /\ query = <<>>
  /\ statusFilter = "ALL"
  /\ sortKey = "createdAt"
  /\ sortDir = "desc"
  /\ page = 1

\* paging through the list while rows are deleted from it
NextPaging ==
  \/ FetchSuccess
  \/ FetchError
  \/ Refetch
  \/ ToggleSortDir
  \/ Prev
  \/ NextPage
  \/ ClickDelete
  \/ DeleteSuccess
  \/ DeleteError

SpecPaging == InitPaging /\ [][NextPaging]_vars

\* ------------------------------------------ the pipeline on a fixed snapshot

\* the page after its first fetch has succeeded, on any of the snapshots
InitPipeline ==
  /\ component \in Components
  /\ store \in PipelineStores(component)
  /\ data = Some(store)
  /\ queryStatus = "success"
  /\ fetching = FALSE
  /\ createStatus = "idle"
  /\ createVars = null
  /\ deleteStatus = "idle"
  /\ deleteVars = null
  /\ mutations = 0
  /\ query = <<>>
  /\ statusFilter = "ALL"
  /\ sortKey = "createdAt"
  /\ sortDir = "desc"
  /\ page = 1

NextPipeline ==
  \/ \E q \in PipelineQueries : SetQuery(q)
  \/ \E sf \in StatusFilters : SetStatusFilter(sf)
  \/ \E k \in SortKeysApi \cup SortKeysPages : SetSortKey(k)
  \/ ToggleSortDir
  \/ Prev
  \/ NextPage

SpecPipeline == InitPipeline /\ [][NextPipeline]_vars

\* ------------------------------------------------------------ claims C1, C2

\* the sum of a field over the records of a list from index i on, a
\* missing value counting 0
RECURSIVE SumFrom(_, _, _)
SumFrom(list, key, i) ==
  IF i > Len(list) THEN 0 ELSE OrZero(list[i][key]) + SumFrom(list, key, i + 1)

SumOf(list, key) == SumFrom(list, key, 1)

CountOf(list, st) == Cardinality({i \in 1..Len(list) : list[i].status = st})

\* r is the integer nearest to 100 * spent / budget, a half rounded up
IsBurnRate(r, spent, budget) ==
  IF budget <= 0 THEN r = 0
  ELSE 2 * budget * r <= 200 * spent + budget /\ 200 * spent + budget < 2 * budget * (r + 1)

\* C1: in every state the KPIs, the status breakdown and the top-budgets
\* dataset are those of the filtered+sorted collection the table paginates:
\* totalBudget is the sum of budget over its records (not over the snapshot,
\* not over the visible page), and likewise for the other artifacts.
C1_AggregatesOfFilteredSorted ==
  LET rows == Rows
      k == kpis
      sd == statusData
      top == TopBudgets
  IN /\ k.totalBudget = SumOf(rows, "budget")
     /\ k.totalSpent = SumOf(rows, "spent")
     /\ k.activeCount = CountOf(rows, "ACTIVE")
     /\ k.burnRate = (IF SumOf(rows, "budget") <= 0 THEN 0
                      ELSE burnRateOf(SumOf(rows, "spent"), SumOf(rows, "budget")))
     /\ \A i \in 1..Len(sd) : sd[i].value = CountOf(rows, sd[i].name)
     /\ Len(top) = Min(TopCount, Len(rows))
     /\ \A i \in 1..Len(top) : \E j \in 1..Len(rows) :
          /\ top[i].name = rows[j].name
          /\ top[i].budget = OrZero(rows[j].budget)
          /\ top[i].spent = OrZero(rows[j].spent)
     /\ VisiblePage = SubSeq(rows, (safePage - 1) * pageSize + 1,
                             Min(safePage * pageSize, Len(rows)))

\* the snapshot, the filtered+sorted collection and the visible page all
\* differ, and so do their budgets
C1_Witness ==
  /\ Len(projects) > Len(Rows)
  /\ Len(Rows) > Len(VisiblePage)
  /\ kpis.totalBudget # SumOf(projects, "budget")
  /\ kpis.totalBudget # SumOf(VisiblePage, "budget")
  /\ SumOf(VisiblePage, "budget") > 0

\* C2: a Prev or Next step changes the page index only: the snapshot, the
\* query, the status filter, the sort key and direction, the filtered+sorted
\* collection, the four KPIs, the status breakdown and the top budgets stay.
C2_PageStepFrame ==
  [][(page' # page /\ (Prev \/ NextPage)) =>
       /\ UNCHANGED <<component, store, data, queryStatus, fetching, mutationVars>>
       /\ UNCHANGED <<query, statusFilter, sortKey, sortDir>>
       /\ page' # page
       /\ Rows' = Rows
       /\ kpis' = kpis
       /\ statusData' = statusData
       /\ TopBudgets' = TopBudgets]_vars

\* the second page is shown (Next has acted, Prev is enabled) and holds
\* fewer records than the first
C2_Witness ==
  /\ page = 2
  /\ safePage = 2
  /\ Len(VisiblePage) > 0
  /\ Len(VisiblePage) < pageSize
  /\ ENABLED Prev

\* ------------------------------------------------------------ claims C3, C4

\* the text the filter is said to search: name, owner, id, status, budget,
\* spent and createdAt joined by spaces, in lower case
ClaimedHay(p) ==
  toLowerCase(join(<<p.name, p.owner, NumberToString(p.id), StatusText(p.status),
                     OptionalToString(p.budget), OptionalToString(p.spent), p.createdAt>>))

ClaimedMatch(p) ==
  /\ (statusFilter = "ALL" \/ p.status = statusFilter)
  /\ \/ trim(toLowerCase(query)) = <<>>
     \/ includes(ClaimedHay(p), trim(toLowerCase(query)))

\* C3: the filter stage returns exactly the records whose status passes the
\* status filter and whose space-joined, lower-cased seven fields contain the
\* trimmed, lower-cased query (or the query is empty), in their input order.
C3_FilterPredicate == Filtered = SelectSeq(projects, ClaimedMatch)

\* ------------------------------------------------------------------------

\* how often a record occurs in a list
Multiplicity(list, r) == Cardinality({i \in 1..Len(list) : list[i] = r})

\* what the top-budgets dataset shows of a record
TopEntry(r) ==
  IF component = "api"
  THEN [id |-> r.id, name |-> r.name, budget |-> OrZero(r.budget), spent |-> OrZero(r.spent)]
  ELSE [name |-> r.name, budget |-> OrZero(r.budget), spent |-> OrZero(r.spent)]

TopEntries(list) == [i \in 1..Len(list) |-> TopEntry(list[i])]

\* C4: sorting permutes the filtered collection (same records, same
\* multiplicity); every record of the filtered collection and of the visible
\* page is a record of the snapshot and occurs no more often than there;
\* every entry of the top-budgets dataset is that of a record of the
\* snapshot, no record giving two entries.
C4_RecordIdentity ==
  LET snapshot == projects
      filtered == Filtered
      rows == Rows
      shown == VisiblePage
      top == TopBudgets
  IN /\ Len(rows) = Len(filtered)
     /\ \A i \in 1..Len(filtered) :
          Multiplicity(rows, filtered[i]) = Multiplicity(filtered, filtered[i])
     /\ \A i \in 1..Len(filtered) :
          /\ Multiplicity(snapshot, filtered[i]) >= 1
          /\ Multiplicity(filtered, filtered[i]) <= Multiplicity(snapshot, filtered[i])
     /\ \A i \in 1..Len(shown) :
          /\ Multiplicity(snapshot, shown[i]) >= 1
          /\ Multiplicity(shown, shown[i]) <= Multiplicity(snapshot, shown[i])
     /\ \A i \in 1..Len(top) :
          /\ Multiplicity(TopEntries(snapshot), top[i]) >= 1
          /\ Multiplicity(top, top[i]) <= Multiplicity(TopEntries(snapshot), top[i])

\* records that tie under the sort key are filtered and sorted, some are
\* dropped by the filter, and the page and the top budgets are proper parts
C4_Witness ==
  /\ sortKey = "budget"
  /\ Len(Rows) < Len(projects)
  /\ Len(VisiblePage) < Len(Rows)
  /\ Len(TopBudgets) = TopCount
  /\ Rows # Filtered
  /\ \E i, j \in 1..Len(Rows) : i # j /\ Rows[i].budget = Rows[j].budget

\* -------------------------------------------------------- claims C5, C6, C7

\* the comparator of the mounted component finds two records equal
KeyEqual(a, b) ==
  IF component = "api" THEN compare(a, b, sortKey) = 0
  ELSE sortValuePages(a, sortKey) = sortValuePages(b, sortKey)

IndexOf(list, r) == CHOOSE i \in 1..Len(list) : list[i] = r

\* C5: the sort is stable in both directions: two records of the filtered
\* collection whose values under the sort key compare equal come out of the
\* sort in the order they went in.
C5_SortStable ==
  LET filtered == Filtered
      rows == Rows
  IN \A i, j \in 1..Len(filtered) :
       (i < j /\ KeyEqual(filtered[i], filtered[j]))
         => IndexOf(rows, filtered[i]) < IndexOf(rows, filtered[j])

\* sorted by budget, descending: the records 3 and 7 share the budget 200,
\* went in as 3 then 7 and come out as 3 then 7, behind a record that went
\* in after them
C5_Witness ==
  /\ sortKey = "budget"
  /\ sortDir = "desc"
  /\ \E i, j \in 1..Len(Filtered) :
       /\ i < j
       /\ Filtered[i].id = 3 /\ Filtered[j].id = 7
       /\ Filtered[i].budget = Some(200) /\ Filtered[j].budget = Some(200)
       /\ KeyEqual(Filtered[i], Filtered[j])
       /\ IndexOf(Rows, Filtered[i]) < IndexOf(Rows, Filtered[j])
  /\ Rows # Filtered

\* ------------------------------------------------------------------------

\* the code unit order of the characters used (ASCII)
CodeUnit(c) ==
  IF c = " " THEN 32
  ELSE IF c = "-" THEN 45
  ELSE IF IsIn(c, Digits) THEN 47 + IndexIn(c, Digits)
  ELSE IF IsIn(c, UpperLetters) THEN 64 + IndexIn(c, UpperLetters)
  ELSE 96 + IndexIn(c, LowerLetters)

CodeUnitOf == [c \in Chars |-> CodeUnit(c)]

\* the lexical order of two texts: -1, 0 or 1
LexicalOrder(a, b) == LexCompare(a, b, CodeUnitOf, 1)

\* two neighbours of the sorted output are in the order of the sort key:
\* numbers by value, createdAt by the lexical order of the texts, where
\* texts that differ are never equal
InKeyOrder(a, b) ==
  IF sortKey \in NumericKeys
  THEN (a[sortKey] # null /\ b[sortKey] # null)
         => IF sortDir = "asc" THEN a[sortKey][1] <= b[sortKey][1]
            ELSE a[sortKey][1] >= b[sortKey][1]
  ELSE IF sortKey = "createdAt"
  THEN a.createdAt # b.createdAt
         => IF sortDir = "asc" THEN LexicalOrder(a.createdAt, b.createdAt) < 0
            ELSE LexicalOrder(a.createdAt, b.createdAt) > 0
  ELSE TRUE

\* C6: the sorted output is ordered by the active key: budget and spent
\* numerically, non-decreasing when ascending and non-increasing when
\* descending, createdAt in exactly the lexical order of its texts.
C6_SortedByKey ==
  LET rows == Rows
  IN \A i \in 1..Len(rows) - 1 : InKeyOrder(rows[i], rows[i + 1])

\* ------------------------------------------------------------------------

\* the comparator the sort of the mounted component is given
SortComparator(a, b, dir) ==
  IF component = "api" THEN sortComparatorApi(a, b, sortKey, dir)
  ELSE sortComparatorPages(a, b, sortKey, dir)

Missing(r) == sortKey \in NumericKeys /\ r[sortKey] = null

\* C7: the descending comparator is the negated ascending one, the rule for
\* missing values included: a record without the value comes before every
\* record with it when ascending and after every such record when
\* descending, and two records without it compare equal (and so keep their
\* order).
C7_DescendingNegatesAscending ==
  LET snapshot == projects
      filtered == Filtered
      rows == Rows
  IN /\ \A i, j \in 1..Len(snapshot) :
          /\ SortComparator(snapshot[i], snapshot[j], "desc")
               = 0 - SortComparator(snapshot[i], snapshot[j], "asc")
          /\ (Missing(snapshot[i]) /\ Missing(snapshot[j]))
               => SortComparator(snapshot[i], snapshot[j], sortDir) = 0
          /\ (Missing(snapshot[i]) /\ ~Missing(snapshot[j]))
               => /\ SortComparator(snapshot[i], snapshot[j], "asc") < 0
                  /\ SortComparator(snapshot[i], snapshot[j], "desc") > 0
     /\ \A i, j \in 1..Len(rows) :
          (Missing(rows[i]) /\ ~Missing(rows[j]))
            => IF sortDir = "asc" THEN i < j ELSE i > j
     /\ \A i, j \in 1..Len(filtered) :
          (i < j /\ Missing(filtered[i]) /\ Missing(filtered[j]))
            => IndexOf(rows, filtered[i]) < IndexOf(rows, filtered[j])

\* sorted by budget, descending: two records without a budget come last, in
\* their input order, behind records with one
C7_Witness ==
  /\ sortKey = "budget"
  /\ sortDir = "desc"
  /\ Len(Rows) >= 3
  /\ ~Missing(Rows[1])
  /\ Missing(Rows[Len(Rows) - 1])
  /\ Missing(Rows[Len(Rows)])
  /\ IndexOf(Filtered, Rows[Len(Rows) - 1]) < IndexOf(Filtered, Rows[Len(Rows)])
  /\ ~Missing(Filtered[Len(Filtered)])

\* ------------------------------------------------------- claims C8, C9, C10

PageAt(pg) ==
  IF component = "api" THEN Only({pagedProjectsAt(list, pg) : list \in {filteredProjects}})
  ELSE Only({pageItemsAt(list, pg) : list \in {filteredSorted}})

\* the pages 1..k, one after the other
PagesUpTo(k) ==
  LET upTo[m \in 0..k] ==
        IF m = 0 THEN <<>> ELSE Only({before \o PageAt(m) : before \in {upTo[m - 1]}})
  IN upTo[k]

\* C9: the visible page is the slice of the filtered+sorted collection from
\* (displayed index - 1) * pageSize up to displayed index * pageSize, cut at
\* the collection's end, in the same order; the pages 1..totalPages, one
\* after the other, are the collection, each record on exactly one page.
C9_PageIsSlice ==
  LET rows == Rows
      tp == totalPages
      sp == safePage
  IN /\ VisiblePage = SubSeq(rows, (sp - 1) * pageSize + 1, Min(sp * pageSize, Len(rows)))
     /\ PagesUpTo(tp) = rows
     /\ \A i \in 1..Len(rows) :
          Cardinality({k \in 1..tp : Multiplicity(PageAt(k), rows[i]) = 1}) = 1

\* twelve records and pageSize 5: page 3 holds the last two
C9_Witness ==
  /\ pageSize = 5
  /\ Len(Rows) = 12
  /\ page = 3
  /\ safePage = 3
  /\ VisiblePage = SubSeq(Rows, 11, 12)

\* ------------------------------------------------------------------------

\* C10: whenever the query, the status filter, the sort key or the sort
\* direction changes, the page index is 1 afterwards, whatever it was.
C10_PageResetOnChange ==
  [][(query' # query \/ statusFilter' # statusFilter
        \/ sortKey' # sortKey \/ sortDir' # sortDir) => page' = 1]_vars

\* ------------------------------------------------------ claims C11 .. C13

\* C11: after any sequence of query, status and sort changes, Prev and
\* Next clicks, creates, deletes and refreshes, the displayed page index lies
\* in 1..totalPages and the visible page is non-empty whenever the
\* filtered+sorted collection is non-empty; once a delete has shrunk
\* totalPages below the page index, the displayed index is the new totalPages.
C11_DisplayedPageInRange ==
  LET tp == totalPages
      sp == SafePageOf(page, tp)
  IN /\ sp \in 1..tp
     /\ page > tp => sp = tp
     /\ Len(Rows) > 0 => Len(VisiblePage) > 0

\* the only record of the last page has been deleted and the list fetched
\* again: one full page is left, the page index still is 2, page 1 is shown
C11_Witness ==
  /\ deleteStatus = "success"
  /\ ~fetching
  /\ data = Some(store)
  /\ Len(Rows) = pageSize
  /\ page = 2
  /\ totalPages = 1
  /\ safePage = 1
  /\ Len(VisiblePage) = pageSize

\* ------------------------------------------------------------------------

\* C12: for every collection, totalBudget is the sum of budget, totalSpent
\* the sum of spent, activeCount the number of ACTIVE records, and burnRate
\* is 0 when totalBudget <= 0 and otherwise the integer nearest to
\* 100 * totalSpent / totalBudget, an exact half rounded up.
C12_KpiValues ==
  LET rows == Rows
      k == kpis
  IN /\ k.totalBudget = SumOf(rows, "budget")
     /\ k.totalSpent = SumOf(rows, "spent")
     /\ k.activeCount = CountOf(rows, "ACTIVE")
     /\ IsBurnRate(k.burnRate, SumOf(rows, "spent"), SumOf(rows, "budget"))

\* ------------------------------------------------------------------------

\* C13: the status breakdown always holds exactly the three entries ACTIVE,
\* PAUSED and DONE, in that order, also when a count is zero or there are no
\* records; each count is the number of filtered+sorted records with that
\* status, and the three counts add up to the size of that collection.
C13_StatusBreakdown ==
  LET rows == Rows
      sd == statusData
  IN /\ Len(sd) = 3
     /\ <<sd[1].name, sd[2].name, sd[3].name>> = <<"ACTIVE", "PAUSED", "DONE">>
     /\ \A i \in 1..3 : sd[i].value = CountOf(rows, sd[i].name)
     /\ sd[1].value + sd[2].value + sd[3].value = Len(rows)

\* only ACTIVE records are left: the entries of PAUSED and DONE are there
\* and count none
C13_Witness ==
  /\ statusFilter = "ACTIVE"
  /\ Len(Rows) > 1
  /\ statusData = <<[name |-> "ACTIVE", value |-> Len(Rows)],
                    [name |-> "PAUSED", value |-> 0],
                    [name |-> "DONE", value |-> 0]>>

\* ------------------------------------------------------ claims C14 .. C16

\* C14: the top-budgets dataset holds min(6, n) of the n filtered records in
\* non-increasing budget order, every record in it with a budget at least
\* that of every record left out; records of equal budget keep the order
\* they have in the filtered collection, so the dataset is the same under
\* every sort key and direction: it is the one computed from the filtered
\* records in their original order.
C14_TopBudgetsIndependentOfSort ==
  LET top == TopBudgets
      rows == Rows
  IN /\ Len(top) = Min(TopCount, Len(rows))
     /\ \A i \in 1..(Len(top) - 1) : top[i].budget >= top[i + 1].budget
     /\ top # <<>> =>
           Cardinality({j \in 1..Len(rows) : OrZero(rows[j].budget) > top[Len(top)].budget})
             < TopCount
     /\ top = Only({TopBudgetsOf(list) : list \in {Filtered}})

\* ------------------------------------------------------------------------

\* C15: filtering is idempotent: for every collection, query and status
\* filter, the filter step applied to its own output, with the same query
\* and status filter, gives that output again, same records in the same
\* order (and so it does on the filtered+sorted collection).
C15_FilterIdempotent ==
  /\ Only({FilterOf(filtered) = filtered : filtered \in {Filtered}})
  /\ Only({FilterOf(rows) = rows : rows \in {Rows}})

\* a query and a status filter that together keep some records and drop
\* others
C15_Witness ==
  /\ query # <<>>
  /\ statusFilter # "ALL"
  /\ Len(Filtered) > 1
  /\ Len(Filtered) < Len(projects)
  /\ \E i \in 1..Len(projects) :
        /\ projects[i].status = statusFilter
        /\ Multiplicity(Filtered, projects[i]) = 0

\* ------------------------------------------------------------------------

\* the KPIs of no records
ZeroKpis == [totalBudget |-> 0, totalSpent |-> 0, activeCount |-> 0, burnRate |-> 0]

\* the pipeline has run on an empty collection: no rows, zero KPIs, empty
\* charts, page 1 of 1
EmptyPipeline ==
  /\ Rows = <<>>
  /\ kpis = ZeroKpis
  /\ \A i \in 1..Len(statusData) : statusData[i].value = 0
  /\ TopBudgets = <<>>
  /\ totalPages = 1
  /\ safePage = 1
  /\ VisiblePage = <<>>

\* C16: whenever a fetch of the record source has failed, the first one or
\* one after an earlier success, the failure message is shown and the
\* pipeline runs on an empty collection: zero KPIs, empty charts, page 1 of 1.
C16_FetchFailureEmptiesPipeline ==
  queryStatus = "error" => (FetchMessage \in MessagesShown /\ EmptyPipeline)

\* ------------------------------------------------------ claims C17 .. C20

\* C17, as stated: while the record source is pending (no snapshot has
\* arrived yet) the pipeline treats the collection as empty, the loading
\* indicator is shown, and no error message at all is on the screen.
C17_PendingShowsNoError ==
  queryStatus = "pending" => (EmptyPipeline /\ isLoading /\ MessagesShown = {})

\* C17, amended: while the record source is pending the pipeline treats the
\* collection as empty (no rows, zero KPIs, empty charts, page 1 of 1), the
\* loading indicator is shown and no failure of the fetch is reported; the
\* only message that can be on the screen is that of a create that failed
\* in the meantime.
C17_PendingShowsNoFetchError ==
  queryStatus = "pending" =>
    /\ data = null
    /\ EmptyPipeline
    /\ isLoading
    /\ FetchMessage \notin MessagesShown
    /\ MessagesShown \subseteq {CreateMessage}
    /\ (createStatus # "error" => MessagesShown = {})

\* the list is still loading and a create issued meanwhile has failed: the
\* loading indicator and the create's message are both shown
C17_Witness ==
  /\ queryStatus = "pending"
  /\ isLoading
  /\ createStatus = "error"
  /\ MessagesShown = {CreateMessage}
  /\ Rows = <<>>

\* ------------------------------------------------------------------------

\* a create or a delete is issued in this step
Issued ==
  \/ createStatus' # createStatus /\ createStatus' = "pending"
  \/ deleteStatus' # deleteStatus /\ deleteStatus' = "pending"

\* a create or a delete fails in this step
Failed ==
  \/ createStatus' # createStatus /\ createStatus' = "error"
  \/ deleteStatus' # deleteStatus /\ deleteStatus' = "error"

\* what the pipeline puts on the screen: the rows, the KPIs, the two charts,
\* the displayed page index of totalPages, and the visible page
Displayed ==
  Only({<<rows, KpisOf(rows), StatusDataOf(rows), TopBudgetsOf(rows),
          SafePageOf(page, Max(1, MathCeil(Len(rows), pageSize))),
          Max(1, MathCeil(Len(rows), pageSize)),
          IF component = "api" THEN pagedProjectsAt(rows, page) ELSE pageItemsAt(rows, page)>> :
        rows \in {Rows}})

\* C18: issuing a create or a delete, and its failure, change nothing
\* locally: the snapshot, the rows, the KPIs, the charts, the page index and
\* the filter and sort state stay as they are, the record source is not
\* touched and no fetch is started; the snapshot changes only when a fetch
\* of the list succeeds, and then it is the list of the record source.
C18_FailedMutationChangesNothing ==
  [][/\ Issued => UNCHANGED <<store, data, queryStatus, fetching, uiVars>>
     /\ Failed =>
          /\ UNCHANGED <<store, data, queryStatus, fetching, uiVars>>
          /\ Displayed' = Displayed
     /\ data' # data =>
          /\ fetching /\ ~fetching'
          /\ queryStatus' = "success"
          /\ data' = Some(store)]_vars

\* a delete has failed: the record is still in the record source and in the
\* snapshot, and no fetch has been started
C18_Witness ==
  /\ deleteStatus = "error"
  /\ deleteVars = null
  /\ ~fetching
  /\ queryStatus = "success"
  /\ data = Some(store)
  /\ Len(Rows) = Len(store)
  /\ Len(store) > pageSize

\* ------------------------------------------------------------------------

\* C19: in every state where the most recent create, or the most recent
\* delete, has ended in failure, its message is part of what is displayed,
\* also when a failed fetch or the failure of the other mutation is there.
C19_MutationFailureShown ==
  /\ createStatus = "error" => CreateMessage \in MessagesShown
  /\ deleteStatus = "error" => DeleteMessage \in MessagesShown

\* ------------------------------------------------------------------------

\* a create payload as the claim wants it
ValidPayload(p) ==
  /\ trim(p.name) # <<>>
  /\ trim(p.owner) # <<>>
  /\ p.budget # null /\ p.budget[1] >= 0
  /\ p.spent # null /\ p.spent[1] >= 0
  /\ p.status \in Statuses
  /\ IsDateShape(p.createdAt)

\* C20: every create payload that reaches the record source has a name and
\* an owner that are not empty after trimming, a budget and a spent amount
\* of at least 0, a status of the closed set and a createdAt of the shape
\* YYYY-MM-DD: the payload of the create in flight is such, and so is every
\* record the record source has taken from a create.
C20_CreatePayloadValid ==
  /\ createVars # null => ValidPayload(createVars[1])
  /\ \A i \in 1..Len(store) :
        store[i].id > Len(Catalogue(component)) => ValidPayload(store[i])

\* ------------------------------------------------------ claims C21 .. C23

\* a create or a delete succeeds in this step
Succeeded ==
  \/ createStatus = "pending" /\ createStatus' = "success"
  \/ deleteStatus = "pending" /\ deleteStatus' = "success"

\* a create or a delete has succeeded and the list is being fetched
RefetchAfterSuccess ==
  fetching /\ (createStatus = "success" \/ deleteStatus = "success")

\* the filtered+sorted collection the pipeline makes of a list
RowsOf(list) ==
  IF component = "api" THEN sortApi(filterApi(list, query, statusFilter), sortKey, sortDir)
  ELSE sortPages(filterPages(list, query, statusFilter), sortKey, sortDir)

\* the snapshot is the list of the record source and the rows are made of it
SnapshotIsStore ==
  /\ ~fetching
  /\ data = Some(store)
  /\ Rows = RowsOf(store)

\* C21: every successful create and every successful delete starts a fetch
\* of the list and changes the record source only, not the snapshot; when
\* the fetches succeed, the snapshot in the end is the list of the record
\* source (the created record in it, the deleted one not) and the rows are
\* those the pipeline makes of it.
C21_SuccessRefetches ==
  /\ [][Succeeded => (fetching' /\ data' = data /\ UNCHANGED uiVars)]_vars
  /\ (RefetchAfterSuccess ~> SnapshotIsStore)

\* a create has succeeded and the list has been fetched again: the new
\* record is the last of the snapshot
C21_Witness ==
  /\ createStatus = "success"
  /\ SnapshotIsStore
  /\ Len(projects) > 0
  /\ projects[Len(projects)].id > Len(Catalogue(component)) - 1
  /\ projects[Len(projects)].name = <<"E", "d">>
  /\ projects[Len(projects)].createdAt = Today

\* ------------------------------------------------------------------------

\* C22: whenever the filtered collection is empty, because no record matches
\* the query and the status filter or because the snapshot is empty, and
\* whatever the snapshot holds: the four KPIs are 0, the three status counts
\* are 0, the top-budgets dataset is empty, totalPages is 1, the displayed
\* page index is 1 and the visible page is empty.
C22_EmptyFilteredCollection ==
  Filtered = <<>> =>
    /\ kpis.totalBudget = 0 /\ kpis.totalSpent = 0
    /\ kpis.activeCount = 0 /\ kpis.burnRate = 0
    /\ Len(statusData) = 3
    /\ \A i \in 1..3 : statusData[i].value = 0
    /\ TopBudgets = <<>>
    /\ totalPages = 1
    /\ safePage = 1
    /\ VisiblePage = <<>>

\* a snapshot with budgets in it, and a query and a status no record of it
\* matches
C22_Witness ==
  /\ Filtered = <<>>
  /\ query # <<>>
  /\ statusFilter # "ALL"
  /\ Len(projects) > pageSize
  /\ SumOf(projects, "budget") > 0
  /\ CountOf(projects, "ACTIVE") > 0
  /\ kpis.totalBudget = 0

\* ------------------------------------------------------------------------
\* C23: no stage of the pipeline modifies its input. After a render the
\* array of the fetched snapshot still holds the records of the snapshot in
\* their order and with their fields, and the array of the filtered+sorted
\* collection still holds the rows in the order the table shows, also after
\* the top-budgets dataset was computed from it; the page and the
\* top-budgets dataset are arrays of their own.
C23_StagesLeaveInputsUnchanged ==
  LET r == Only({Render})
  IN /\ r.heap[r.snapshot] = projects
     /\ r.heap[r.rows] = Rows
     /\ r.heap[r.page] = VisiblePage
     /\ r.heap[r.top] = TopBudgets
     /\ Cardinality({r.snapshot, r.rows, r.page, r.top}) = 4

\* a render that sorted the rows into another order than the snapshot's, and
\* whose top-budgets dataset is in another order than the rows
C23_Witness ==
  /\ Len(Rows) = Len(projects)
  /\ Rows # projects
  /\ Len(Rows) > TopCount
  /\ Len(TopBudgets) = TopCount
  /\ \E i \in 1..TopCount : TopBudgets[i].name # Rows[i].name
  /\ Render.heap[Render.rows] = Rows

\* ------------------------------------------------------ claims C24 .. C26

\* a click on Prev, and a click on Next: the only steps that move the page
\* state down with the filters and the sort as they were, or up
PrevClicked == page' < page /\ UNCHANGED <<query, statusFilter, sortKey, sortDir>>

NextClicked == page' > page

\* the displayed page index went from one value to another
StepsBy(n) ==
  \A before \in {totalPages} : \A after \in {totalPages'} :
    SafePageOf(page', after) = SafePageOf(page, before) + n

\* C24: pressing Prev while the displayed page index is greater than 1 makes
\* the displayed page index exactly one smaller, and pressing Next while it is
\* smaller than totalPages makes it exactly one larger, also after deletes
\* have shrunk totalPages below the stored page index.
C24_PrevNextStepByOne ==
  [][/\ PrevClicked => StepsBy(-1)
     /\ NextClicked => StepsBy(1)]_vars

\* the half of C24 about Next: a click on Next makes the displayed page index
\* exactly one larger
C24_NextStepsByOne == [][NextClicked => StepsBy(1)]_vars

\* deletes have left the page state above totalPages while Prev is enabled
C24_StalePage == page > totalPages /\ safePage > 1 /\ deleteStatus = "success" /\ ~fetching

\* ------------------------------------------------------------------------
\* the count the status breakdown shows for a status
CountShown(st) ==
  LET shown == {i \in 1..Len(statusData) : statusData[i].name = st}
  IN IF shown = {} THEN null ELSE statusData[Only(shown)].value

\* C25: the Active Projects KPI equals the ACTIVE count of the status
\* breakdown, and when statusFilter is a concrete status S the counts of the
\* two other statuses are 0 and the count of S equals the size of the
\* filtered+sorted collection.
C25_KpisAgreeWithCharts ==
  /\ kpis.activeCount = CountShown("ACTIVE")
  /\ statusFilter # "ALL" =>
       \A st \in Statuses :
         CountShown(st) = (IF st = statusFilter THEN Len(Rows) ELSE 0)

\* a concrete status is picked on a snapshot that has records of the other
\* statuses too, active ones among them, and several records pass
C25_Witness ==
  /\ statusFilter = "PAUSED"
  /\ Len(Rows) > 1
  /\ CountOf(projects, "ACTIVE") > 0
  /\ CountOf(projects, "DONE") > 0
  /\ kpis.activeCount = 0
  /\ CountShown("PAUSED") = Len(Rows)

\* ------------------------------------------------------------------------
\* the create form is submitted: a payload goes to the record source
Submitted == createStatus # "pending" /\ createStatus' = "pending"

\* the payload sent is the one of the entered values v, and v passed the
\* form's validation
EnteredFor(v, payload) ==
  /\ payload.name = (IF component = "api" THEN trim(v.name) ELSE v.name)
  /\ payload.budget = Some(v.budget)
  /\ v.budget >= 0 /\ v.spent >= 0

\* the records of the filtered+sorted collection that have spent more than
\* their budget
Overspent(list) ==
  {i \in 1..Len(list) :
     list[i].budget # null /\ list[i].spent # null /\ list[i].spent[1] > list[i].budget[1]}

\* C26: every create payload the form of pages/DashboardPage.tsx sends has
\* spent = min(entered spent, entered budget), hence spent <= budget; the
\* form of api/kpis.ts sends the entered spent as it is, and the pipeline
\* keeps and sums records with spent > budget unchanged.
C26_PagesFormClampsSpent ==
  /\ [][Submitted =>
          \A payload \in {createVars'[1]} :
            /\ \E v \in FormInputs : EnteredFor(v, payload)
            /\ \A v \in FormInputs :
                 EnteredFor(v, payload) =>
                   IF component = "pages"
                   THEN /\ payload.spent =
                             Some(IF v.spent < v.budget THEN v.spent ELSE v.budget)
                        /\ payload.spent[1] <= payload.budget[1]
                   ELSE payload.spent = Some(v.spent)]_vars
  /\ [](\A rows \in {Rows} :
          /\ \A i \in Overspent(rows) : \E j \in 1..Len(projects) : projects[j] = rows[i]
          /\ kpis.totalSpent = SumOf(rows, "spent")
          /\ kpis.totalBudget = SumOf(rows, "budget"))

\* the form of pages/DashboardPage.tsx has sent a payload whose spent was cut
\* down to its budget, while the snapshot shown holds records that have spent
\* more than their budget
C26_Witness ==
  /\ component = "pages"
  /\ createStatus = "pending"
  /\ createVars # null
  /\ createVars[1].name = <<"E", "d">>
  /\ createVars[1].budget = Some(50)
  /\ createVars[1].spent = Some(50)
  /\ ~fetching
  /\ Overspent(Rows) # {}
  /\ kpis.totalSpent = SumOf(Rows, "spent")

====
